---------------------------- MODULE Spec2Model ----------------------------
(***************************************************************************)
(* A model of framework_air_monitoring_project_helena.py: the line parser, *)
(* the threshold evaluator, the CSV sink and the main loop with its serial *)
(* handle, its uncaught exceptions and the keyboard interrupt.             *)
(*                                                                         *)
(* Text is a sequence of one-character strings, so that split, strip,      *)
(* upper and float() are computed as the code computes them.  A float is   *)
(* an exact decimal [k |-> "num", m, e] (m / 10^e), or nan, or +-inf.      *)
(***************************************************************************)
EXTENDS Integers, Sequences, FiniteSets, TLC

VARIABLES
    pc,          \* position of main(): "start", ..., "done", "dead", or a harness position
    SIMULATION,  \* the user setting of line 64
    serial,      \* whether "import serial" succeeded (lines 58-61)
    ser,         \* main's local ser: "None" or "handle"
    port,        \* the serial port: "untried", "failed", "open" or "closed"
    mode,        \* what line 166 printed: "", "SERIAL" or "SIMULATION"
    raw,         \* main's local raw (text)
    data,        \* main's local data (a dict)
    row,         \* main's local row
    warnings,    \* the warnings printed for the current row
    shown,       \* the measurement blocks printed so far (lines 187-190)
    file,        \* the file at CSV_PATH
    startFile,   \* the file as the run found it
    clock,       \* the last reading of the local wall clock
    clockBack,   \* whether a reading of the wall clock was earlier than the one before
    ticks,       \* completed iterations of the loop
    sources,     \* the source each tick read from, in order
    exc,         \* the exception in flight or that ended the run, "" for none
    line,        \* harness: the input of parse_line
    parsed,      \* harness: the outcome of parse_line
    expect,      \* harness: the record a well-formed line was built from
    ensured      \* harness: whether ensure_csv_header was called on the file

vars == <<pc, SIMULATION, serial, ser, port, mode, raw, data, row,
          warnings, shown, file, startFile, clock, clockBack, ticks, sources, exc,
          line, parsed, expect, ensured>>

(***************************************************************************)
(* Bounds of the model.                                                    *)
(***************************************************************************)
MaxTicks == 2
MaxRows == 3
MaxSegs == 2
MaxClock == 1

(***************************************************************************)
(* The thresholds of lines 71-77.                                          *)
(***************************************************************************)
PM25_MAX == 25
PM10_MAX == 50
CO2_MAX == 1000
TEMP_MIN == -10
TEMP_MAX == 45
HUM_MIN == 20
HUM_MAX == 70

(***************************************************************************)
(* Floats.                                                                 *)
(***************************************************************************)
RECURSIVE Pow10(_)
Pow10(e) == IF e = 0 THEN 1 ELSE 10 * Pow10(e - 1)

RECURSIVE Normal(_, _)
Normal(m, e) ==
    IF e > 0 /\ m % 10 = 0 THEN Normal(m \div 10, e - 1)
    ELSE [k |-> "num", m |-> m, e |-> e]

Num(m, e) == Normal(m, e)
NaN == [k |-> "nan", m |-> 0, e |-> 0]
Inf(sign) == [k |-> "inf", m |-> sign, e |-> 0]

\* x > c, x a float and c an integer
FloatGt(x, c) ==
    CASE x.k = "num" -> x.m > c * Pow10(x.e)
      [] x.k = "inf" -> x.m > 0
      [] OTHER -> FALSE

\* lo <= x <= hi, x a float and lo, hi integers
FloatBetween(lo, x, hi) ==
    CASE x.k = "num" -> lo * Pow10(x.e) <= x.m /\ x.m <= hi * Pow10(x.e)
      [] OTHER -> FALSE

(***************************************************************************)
(* Dicts over the five measurement keys: a key not in the dict maps to     *)
(* Absent.                                                                 *)
(***************************************************************************)
Fields == <<"PM2_5", "PM10", "CO2", "TEMP", "HUM">>
FieldSet == {Fields[i] : i \in 1..5}
Absent == [k |-> "absent", m |-> 0, e |-> 0]
EmptyDict == [f \in FieldSet |-> Absent]
Keys(d) == {f \in FieldSet : d[f] # Absent}
DictSet(d, key, val) == [d EXCEPT ![key] = val]

(***************************************************************************)
(* Text.                                                                   *)
(***************************************************************************)
Whitespace == {" ", "\t", "\n", "\r"}
Digits == <<"0", "1", "2", "3", "4", "5", "6", "7", "8", "9">>
LowerCase == <<"a", "b", "c", "d", "e", "f", "g", "h", "i", "j", "k", "l", "m",
               "n", "o", "p", "q", "r", "s", "t", "u", "v", "w", "x", "y", "z">>
UpperCase == <<"A", "B", "C", "D", "E", "F", "G", "H", "I", "J", "K", "L", "M",
               "N", "O", "P", "Q", "R", "S", "T", "U", "V", "W", "X", "Y", "Z">>

IsDigit(c) == \E i \in 1..10 : Digits[i] = c
DigitValue(c) == (CHOOSE i \in 1..10 : Digits[i] = c) - 1

UpperChar(c) ==
    IF \E i \in 1..26 : LowerCase[i] = c
    THEN UpperCase[CHOOSE i \in 1..26 : LowerCase[i] = c]
    ELSE c

\* the key compared as received, upper() left out
UpperLeftOut(s) == s

\* str.upper()
Upper(s) == [i \in 1..Len(s) |-> UpperChar(s[i])]

RECURSIVE LStrip(_)
LStrip(s) == IF s # <<>> /\ Head(s) \in Whitespace THEN LStrip(Tail(s)) ELSE s

RECURSIVE RStrip(_)
RStrip(s) ==
    IF s # <<>> /\ s[Len(s)] \in Whitespace THEN RStrip(SubSeq(s, 1, Len(s) - 1)) ELSE s

\* str.strip()
Strip(s) == RStrip(LStrip(s))

Contains(s, c) == \E i \in 1..Len(s) : s[i] = c
Find(s, c) == CHOOSE i \in 1..Len(s) : s[i] = c /\ \A j \in 1..(i - 1) : s[j] # c

\* str.split(sep): every piece, the empty ones too
RECURSIVE Split(_, _)
Split(s, sep) ==
    IF ~Contains(s, sep) THEN <<s>>
    ELSE <<SubSeq(s, 1, Find(s, sep) - 1)>>
             \o Split(SubSeq(s, Find(s, sep) + 1, Len(s)), sep)

\* part.split(":", 1) of a part that holds a ":"
KeyOf(part) == SubSeq(part, 1, Find(part, ":") - 1)
ValOf(part) == SubSeq(part, Find(part, ":") + 1, Len(part))

AllDigits(s) == \A i \in 1..Len(s) : IsDigit(s[i])

RECURSIVE DigitsValue(_)
DigitsValue(s) ==
    IF s = <<>> THEN 0 ELSE 10 * DigitsValue(SubSeq(s, 1, Len(s) - 1)) + DigitValue(s[Len(s)])

ValueError == [k |-> "ValueError", m |-> 0, e |-> 0]

\* an unsigned decimal numeral: digits, or digits "." digits with a digit on a side
Unsigned(s) ==
    IF ~Contains(s, ".")
    THEN IF s # <<>> /\ AllDigits(s) THEN Num(DigitsValue(s), 0) ELSE ValueError
    ELSE LET ip == SubSeq(s, 1, Find(s, ".") - 1)
             fp == SubSeq(s, Find(s, ".") + 1, Len(s))
         IN  IF AllDigits(ip) /\ AllDigits(fp) /\ Len(ip) + Len(fp) > 0
             THEN Num(DigitsValue(ip) * Pow10(Len(fp)) + DigitsValue(fp), Len(fp))
             ELSE ValueError

Negate(x) ==
    CASE x.k = "num" -> Num(-x.m, x.e)
      [] x.k = "inf" -> Inf(-x.m)
      [] OTHER -> x

Magnitude(s) ==
    IF Upper(s) = <<"N", "A", "N">> THEN NaN
    ELSE IF Upper(s) \in {<<"I", "N", "F">>, <<"I", "N", "F", "I", "N", "I", "T", "Y">>}
    THEN Inf(1)
    ELSE Unsigned(s)

\* float(text) for text over digits, ".", "+", "-", letters and whitespace (no
\* exponent and no "_" between digits): the value, or ValueError
Float(text) ==
    LET s == Strip(text)
    IN  IF s = <<>> THEN ValueError
        ELSE IF Head(s) = "-" THEN Negate(Magnitude(Tail(s)))
        ELSE IF Head(s) = "+" THEN Magnitude(Tail(s))
        ELSE Magnitude(s)

(***************************************************************************)
(* parse_line, lines 92-111.                                               *)
(***************************************************************************)
K_PM25 == <<"P", "M", "2", "5">>
K_PM2d5 == <<"P", "M", "2", ".", "5">>
K_PM2_5 == <<"P", "M", "2", "_", "5">>
K_PM10 == <<"P", "M", "1", "0">>
K_CO2 == <<"C", "O", "2">>
K_TEMP == <<"T", "E", "M", "P">>
K_TEMPC == <<"T", "E", "M", "P", "C">>
K_T == <<"T">>
K_HUM == <<"H", "U", "M">>
K_RH == <<"R", "H">>

\* the if/elif chain of lines 101-110
Store(d, key, val) ==
    IF key \in {K_PM25, K_PM2d5, K_PM2_5} THEN DictSet(d, "PM2_5", val)
    ELSE IF key = K_PM10 THEN DictSet(d, "PM10", val)
    ELSE IF key = K_CO2 THEN DictSet(d, "CO2", val)
    ELSE IF key \in {K_TEMP, K_TEMPC, K_T} THEN DictSet(d, "TEMP", val)
    ELSE IF key \in {K_HUM, K_RH} THEN DictSet(d, "HUM", val)
    ELSE d

Returned(d) == [err |-> "", data |-> d]
Raised(e) == [err |-> e, data |-> EmptyDict]

\* the for loop of lines 95-110 from part i on, with the dict built so far
RECURSIVE ParseParts(_, _, _)
ParseParts(parts, i, d) ==
    IF i > Len(parts) THEN Returned(d)
    ELSE LET part == parts[i]
         IN  IF part = <<>> \/ ~Contains(part, ":") THEN ParseParts(parts, i + 1, d)
             ELSE LET key == Upper(Strip(KeyOf(part)))
                      val == Float(Strip(ValOf(part)))
                  IN  IF val = ValueError THEN Raised("ValueError")
                      ELSE ParseParts(parts, i + 1, Store(d, key, val))

parse_line(text) == ParseParts(Split(Strip(text), ";"), 1, EmptyDict)

(***************************************************************************)
(* simulate_reading, lines 113-121: each field is drawn from values of its *)
(* range: both ends for PM2_5 and HUM (below and above their thresholds),  *)
(* one end for PM10, CO2 and TEMP.                                         *)
(***************************************************************************)
SimPM25 == {Num(50, 1), Num(800, 1)}
SimPM10 == {Num(100, 1)}
SimCO2 == {Num(2000, 0)}
SimTEMP == {Num(0, 1)}
SimHUM == {Num(250, 1), Num(750, 1)}

Reading(a, b, c, d, e) ==
    [PM2_5 |-> a, PM10 |-> b, CO2 |-> c, TEMP |-> d, HUM |-> e]

simulate_reading ==
    {Reading(a, b, c, d, e) : a \in SimPM25, b \in SimPM10, c \in SimCO2,
                              d \in SimTEMP, e \in SimHUM}

(***************************************************************************)
(* evaluate_thresholds, lines 135-148.                                     *)
(***************************************************************************)
W_PM25 == "Warning: PM2.5 exceeds guideline level."
W_PM10 == "Warning: PM10 exceeds guideline level."
W_CO2 == "Warning: CO₂ is high (ventilation recommended)."
W_TEMP == "Warning: Temperature outside plausible range."
W_HUM == "Warning: Humidity outside comfort range."

AppendIf(cond, w, msg) == IF cond THEN Append(w, msg) ELSE w

\* the five checks chained with elif: only the first violated rule warns
evaluate_thresholds_elif(d) ==
    IF FloatGt(d["PM2_5"], PM25_MAX) THEN <<W_PM25>>
    ELSE IF FloatGt(d["PM10"], PM10_MAX) THEN <<W_PM10>>
    ELSE IF FloatGt(d["CO2"], CO2_MAX) THEN <<W_CO2>>
    ELSE IF ~FloatBetween(TEMP_MIN, d["TEMP"], TEMP_MAX) THEN <<W_TEMP>>
    ELSE IF ~FloatBetween(HUM_MIN, d["HUM"], HUM_MAX) THEN <<W_HUM>>
    ELSE <<>>

evaluate_thresholds(d) ==
    LET w1 == AppendIf(FloatGt(d["PM2_5"], PM25_MAX), <<>>, W_PM25)
        w2 == AppendIf(FloatGt(d["PM10"], PM10_MAX), w1, W_PM10)
        w3 == AppendIf(FloatGt(d["CO2"], CO2_MAX), w2, W_CO2)
        w4 == AppendIf(~FloatBetween(TEMP_MIN, d["TEMP"], TEMP_MAX), w3, W_TEMP)
        w5 == AppendIf(~FloatBetween(HUM_MIN, d["HUM"], HUM_MAX), w4, W_HUM)
    IN  w5

(***************************************************************************)
(* The file at CSV_PATH: absent, or a sequence of lines.  A line is the    *)
(* list of cells csv.writer wrote.                                         *)
(***************************************************************************)
NoFile == [exists |-> FALSE, lines |-> <<>>]
EmptyFile == [exists |-> TRUE, lines |-> <<>>]
HeaderLine ==
    [kind |-> "header",
     cells |-> <<"timestamp", "PM2_5", "PM10", "CO2", "TEMP_C", "HUM_%">>]
RowLine(r) ==
    [kind |-> "row",
     cells |-> <<r["timestamp"], r["PM2_5"], r["PM10"], r["CO2"], r["TEMP"], r["HUM"]>>]

\* f.readline().startswith("timestamp"): a data line starts with the digits of
\* an ISO date (or whatever cell log_csv was given), the header with "timestamp"
FirstLineIsHeader(f) == f.lines # <<>> /\ f.lines[1].kind = "header"

\* ensure_csv_header opening the file with "a" instead of "w"
ensure_csv_header_appending(f) ==
    IF f.exists /\ FirstLineIsHeader(f) THEN f
    ELSE [exists |-> TRUE, lines |-> Append(f.lines, HeaderLine)]

\* lines 80-90: open(path, "w") truncates the file before the header is written
ensure_csv_header(f) ==
    IF f.exists /\ FirstLineIsHeader(f) THEN f
    ELSE [exists |-> TRUE, lines |-> <<HeaderLine>>]

\* log_csv opening the file with "w" instead of "a"
log_csv_truncating(f, r) == [exists |-> TRUE, lines |-> <<RowLine(r)>>]

\* lines 150-157: open(path, "a") creates the file when there is none
log_csv(f, r) == [exists |-> TRUE, lines |-> Append(f.lines, RowLine(r))]

MakeRow(ts, d) ==
    [timestamp |-> ts, PM2_5 |-> d["PM2_5"], PM10 |-> d["PM10"], CO2 |-> d["CO2"],
     TEMP |-> d["TEMP"], HUM |-> d["HUM"]]
NoRow == MakeRow(-1, EmptyDict)

(***************************************************************************)
(* What the device may send: one line per read, as decoded text.           *)
(***************************************************************************)
L_Documented ==
    <<"P", "M", "2", "5", ":", "2", "3", ".", "4", ";", "P", "M", "1", "0",
      ":", "4", "5", ".", "1", ";", "C", "O", "2", ":", "7", "8", "0", ";",
      "T", "E", "M", "P", ":", "2", "1", ".", "9", ";", "H", "U", "M", ":",
      "4", "7", ".", "3", "\r", "\n">>
L_Aliases ==
    <<"r", "h", ":", "7", "5", ";", "t", ":", "2", "0", ";", "c", "o", "2",
      ":", "1", "2", "0", "0", ";", "p", "m", "1", "0", ":", "1", "0", ";",
      "p", "m", "2", ".", "5", ":", "3", "0", "\n">>
L_NoHum ==
    <<"P", "M", "2", "5", ":", "1", "0", ";", "P", "M", "1", "0", ":", "2",
      "0", ";", "C", "O", "2", ":", "5", "0", "0", ";", "T", "E", "M", "P",
      ":", "2", "0", "\n">>
L_BadNumber ==
    <<"P", "M", "2", "5", ":", "a", "b", "c", ";", "P", "M", "1", "0", ":",
      "2", "0", ";", "C", "O", "2", ":", "5", "0", "0", ";", "T", "E", "M",
      "P", ":", "2", "0", ";", "H", "U", "M", ":", "4", "0", "\n">>
L_UnknownOnly ==
    <<"D", "E", "B", "U", "G", ":", "1", "\n">>
L_NoColon ==
    <<"b", "o", "o", "t", "\n">>
L_Blank ==
    <<"\r", "\n">>
L_Timeout ==
    <<>>

WireLines ==
    {L_Documented, L_Aliases, L_NoHum, L_BadNumber, L_UnknownOnly, L_NoColon,
     L_Blank, L_Timeout}

(***************************************************************************)
(* main, lines 160-206.  The positions of main:                            *)
(*   start       lines 161-163                                             *)
(*   connect     connect_serial, lines 125-128 and 131-133                 *)
(*   reset_wait  connect_serial, lines 129-130, the port open              *)
(*   mode        line 166                                                  *)
(*   read        lines 170-171 and 174      parse   line 172               *)
(*   check       line 176                   row     lines 177-185          *)
(*   display     lines 187-190              eval    lines 192-193          *)
(*   log         line 195                   sleep   line 197               *)
(*   except      line 200                   finally lines 202-206          *)
(*   done        main returned              dead    an exception left main *)
(***************************************************************************)
OldRow == MakeRow(0, Reading(Num(12, 0), Num(20, 0), Num(600, 0), Num(21, 0), Num(40, 0)))
StartFiles == {NoFile, [exists |-> TRUE, lines |-> <<HeaderLine, RowLine(OldRow)>>]}

NoOutcome == [err |-> "", data |-> EmptyDict]

Idle ==
    /\ line = <<>>
    /\ parsed = NoOutcome
    /\ expect = EmptyDict
    /\ ensured = FALSE

Init ==
    /\ pc = "start"
    /\ SIMULATION \in BOOLEAN
    /\ serial \in BOOLEAN
    /\ ser = "None"
    /\ port = "untried"
    /\ mode = ""
    /\ raw = <<>>
    /\ data = EmptyDict
    /\ row = NoRow
    /\ warnings = <<>>
    /\ shown = <<>>
    /\ file \in StartFiles
    /\ startFile = file
    /\ clock = 0
    /\ clockBack = FALSE
    /\ ticks = 0
    /\ sources = <<>>
    /\ exc = ""
    /\ Idle

harness == <<line, parsed, expect, ensured>>
config == <<SIMULATION, serial, startFile>>

\* lines 161-163
Start ==
    /\ pc = "start"
    /\ file' = ensure_csv_header(file)
    /\ pc' = "connect"
    /\ UNCHANGED <<config, harness, ser, port, mode, raw, data, row, warnings, shown,
                   clock, clockBack, ticks, sources, exc>>

\* lines 125-126: no pyserial, or simulation asked for
ConnectNone ==
    /\ pc = "connect"
    /\ ~serial \/ SIMULATION
    /\ ser' = "None"
    /\ pc' = "mode"
    /\ UNCHANGED <<config, harness, port, mode, raw, data, row, warnings, shown, file,
                   clock, clockBack, ticks, sources, exc>>

\* line 128: the port opens
ConnectOpen ==
    /\ pc = "connect"
    /\ serial /\ ~SIMULATION
    /\ port' = "open"
    /\ pc' = "reset_wait"
    /\ UNCHANGED <<config, harness, ser, mode, raw, data, row, warnings, shown, file,
                   clock, clockBack, ticks, sources, exc>>

\* lines 128, 131-133: serial.Serial raises, connect_serial returns None
ConnectFail ==
    /\ pc = "connect"
    /\ serial /\ ~SIMULATION
    /\ port' = "failed"
    /\ ser' = "None"
    /\ pc' = "mode"
    /\ UNCHANGED <<config, harness, mode, raw, data, row, warnings, shown, file,
                   clock, clockBack, ticks, sources, exc>>

\* lines 129-130 and the assignment of line 165
ResetWait ==
    /\ pc = "reset_wait"
    /\ ser' = "handle"
    /\ pc' = "mode"
    /\ UNCHANGED <<config, harness, port, mode, raw, data, row, warnings, shown, file,
                   clock, clockBack, ticks, sources, exc>>

\* line 166, and the try of line 168 is entered
PrintMode ==
    /\ pc = "mode"
    /\ mode' = IF ser # "None" THEN "SERIAL" ELSE "SIMULATION"
    /\ pc' = "read"
    /\ UNCHANGED <<config, harness, ser, port, raw, data, row, warnings, shown, file,
                   clock, clockBack, ticks, sources, exc>>

\* lines 170-171: one line is read, decoded and stripped
ReadSerial ==
    /\ pc = "read"
    /\ ticks < MaxTicks
    /\ ser # "None"
    /\ \E l \in WireLines : raw' = Strip(l)
    /\ sources' = Append(sources, "serial")
    /\ pc' = "parse"
    /\ UNCHANGED <<config, harness, ser, port, mode, data, row, warnings, shown, file,
                   clock, clockBack, ticks, exc>>

\* line 171: the read raises (the device was unplugged)
ReadSerialError ==
    /\ pc = "read"
    /\ ticks < MaxTicks
    /\ ser # "None"
    /\ sources' = Append(sources, "serial")
    /\ exc' = "SerialException"
    /\ pc' = "finally"
    /\ UNCHANGED <<config, harness, ser, port, mode, raw, data, row, warnings, shown,
                   file, clock, clockBack, ticks>>

\* line 172
Parse ==
    /\ pc = "parse"
    /\ LET r == IF raw # <<>> THEN parse_line(raw) ELSE Returned(EmptyDict)
       IN  IF r.err # ""
           THEN exc' = r.err /\ pc' = "finally" /\ data' = data
           ELSE exc' = exc /\ pc' = "check" /\ data' = r.data
    /\ UNCHANGED <<config, harness, ser, port, mode, raw, row, warnings, shown, file,
                   clock, clockBack, ticks, sources>>

\* line 174 taken whenever the port gave nothing, whatever ser is
ReadSimulatedAnyMode ==
    /\ pc = "read"
    /\ ticks < MaxTicks
    /\ \E d \in simulate_reading : data' = d
    /\ sources' = Append(sources, "sim")
    /\ pc' = "check"
    /\ UNCHANGED <<config, harness, ser, port, mode, raw, row, warnings, shown, file,
                   clock, clockBack, ticks, exc>>

\* line 174
ReadSimulated ==
    /\ pc = "read"
    /\ ticks < MaxTicks
    /\ ser = "None"
    /\ \E d \in simulate_reading : data' = d
    /\ sources' = Append(sources, "sim")
    /\ pc' = "check"
    /\ UNCHANGED <<config, harness, ser, port, mode, raw, row, warnings, shown, file,
                   clock, clockBack, ticks, exc>>

\* line 176: "if data" is true of every dict that is not empty
Check ==
    /\ pc = "check"
    /\ pc' = IF Keys(data) # {} THEN "row" ELSE "sleep"
    /\ UNCHANGED <<config, harness, ser, port, mode, raw, data, row, warnings, shown,
                   file, clock, clockBack, ticks, sources, exc>>

\* lines 177-185: datetime.now() is the local wall clock, which the system may
\* set back between two readings; data[key] raises KeyError for a missing key
BuildRow ==
    /\ pc = "row"
    /\ \E t \in 0..MaxClock :
          /\ clock' = t
          /\ clockBack' = (clockBack \/ t < clock)
          /\ IF Keys(data) = FieldSet
             THEN row' = MakeRow(t, data) /\ pc' = "display" /\ exc' = exc
             ELSE row' = row /\ pc' = "finally" /\ exc' = "KeyError"
    /\ UNCHANGED <<config, harness, ser, port, mode, raw, data, warnings, shown, file,
                   ticks, sources>>

\* lines 187-190
Display ==
    /\ pc = "display"
    /\ shown' = Append(shown, row)
    /\ pc' = "eval"
    /\ UNCHANGED <<config, harness, ser, port, mode, raw, data, row, warnings, file,
                   clock, clockBack, ticks, sources, exc>>

\* lines 192-193
Evaluate ==
    /\ pc = "eval"
    /\ warnings' = evaluate_thresholds(row)
    /\ pc' = "log"
    /\ UNCHANGED <<config, harness, ser, port, mode, raw, data, row, shown, file,
                   clock, clockBack, ticks, sources, exc>>

\* line 195
Log ==
    /\ pc = "log"
    /\ file' = log_csv(file, row)
    /\ pc' = "sleep"
    /\ UNCHANGED <<config, harness, ser, port, mode, raw, data, row, warnings, shown,
                   clock, clockBack, ticks, sources, exc>>

\* line 197
Sleep ==
    /\ pc = "sleep"
    /\ ticks' = ticks + 1
    /\ pc' = "read"
    /\ UNCHANGED <<config, harness, ser, port, mode, raw, data, row, warnings, shown,
                   file, clock, clockBack, sources, exc>>

TryBody == {"read", "parse", "check", "row", "display", "eval", "log", "sleep"}
BeforeTry == {"start", "connect", "reset_wait", "mode"}

\* Ctrl+C inside the try of lines 168-197: caught on line 199
InterruptInTry ==
    /\ pc \in TryBody
    /\ pc' = "except"
    /\ UNCHANGED <<config, harness, ser, port, mode, raw, data, row, warnings, shown,
                   file, clock, clockBack, ticks, sources, exc>>

\* Ctrl+C before the try is entered, the sleep of line 129 included:
\* KeyboardInterrupt is no Exception, line 131 does not catch it, and it leaves main
InterruptBeforeTry ==
    /\ pc \in BeforeTry
    /\ exc' = "KeyboardInterrupt"
    /\ pc' = "dead"
    /\ UNCHANGED <<config, harness, ser, port, mode, raw, data, row, warnings, shown,
                   file, clock, clockBack, ticks, sources>>

\* line 200
Farewell ==
    /\ pc = "except"
    /\ pc' = "finally"
    /\ UNCHANGED <<config, harness, ser, port, mode, raw, data, row, warnings, shown,
                   file, clock, clockBack, ticks, sources, exc>>

\* a second Ctrl+C during line 200: the finally clause still runs
InterruptInExcept ==
    /\ pc = "except"
    /\ exc' = "KeyboardInterrupt"
    /\ pc' = "finally"
    /\ UNCHANGED <<config, harness, ser, port, mode, raw, data, row, warnings, shown,
                   file, clock, clockBack, ticks, sources>>

\* lines 201-206, then main returns or the exception in flight leaves it
Finally ==
    /\ pc = "finally"
    /\ port' = IF ser # "None" THEN "closed" ELSE port
    /\ pc' = IF exc = "" THEN "done" ELSE "dead"
    /\ UNCHANGED <<config, harness, ser, mode, raw, data, row, warnings, shown, file,
                   clock, clockBack, ticks, sources, exc>>

\* Ctrl+C in the finally clause before line 204 ran
InterruptInFinally ==
    /\ pc = "finally"
    /\ exc' = "KeyboardInterrupt"
    /\ pc' = "dead"
    /\ UNCHANGED <<config, harness, ser, port, mode, raw, data, row, warnings, shown,
                   file, clock, clockBack, ticks, sources>>

Next ==
    \/ Start
    \/ ConnectNone
    \/ ConnectOpen
    \/ ConnectFail
    \/ ResetWait
    \/ PrintMode
    \/ ReadSerial
    \/ ReadSerialError
    \/ Parse
    \/ ReadSimulated
    \/ Check
    \/ BuildRow
    \/ Display
    \/ Evaluate
    \/ Log
    \/ Sleep
    \/ InterruptInTry
    \/ InterruptBeforeTry
    \/ Farewell
    \/ InterruptInExcept
    \/ Finally
    \/ InterruptInFinally

Spec == Init /\ [][Next]_vars

(***************************************************************************)
(* The main loop: claims C1, C2, C3, C6 and C9, under Spec.                *)
(***************************************************************************)
Complete(d) == Keys(d) = FieldSet

\* some KEY:VALUE segment of the text has a value that float() rejects
HasBadNumber(text) ==
    \E i \in 1..Len(Split(text, ";")) :
        LET part == Split(text, ";")[i]
        IN  Contains(part, ":") /\ Float(ValOf(part)) = ValueError

\* C1: a tick whose record lacks one of the five fields (the empty record or a
\* partial one) skips the rest of the tick: from line 176 the loop goes to the
\* sleep of line 197, unless interrupted, with nothing displayed and no row appended.
C1_IncompleteTickSkipped ==
    [][(pc = "check" /\ ~Complete(data))
         => (pc' \in {"sleep", "except"} /\ shown' = shown /\ file' = file)]_vars

\* C2: in connected mode a line with a KEY:VALUE segment whose value is no number
\* is no usable data for the tick: parsing it leaves an empty record for line 176
\* (or the tick is interrupted); the loop does not end on it.
C2_BadNumberDropped ==
    [][(pc = "parse" /\ HasBadNumber(raw))
         => ((pc' = "check" /\ Keys(data') = {}) \/ pc' = "except")]_vars

\* C3: once the port was opened, the program never stops (main returned, or an
\* exception left it) with the port still open.
C3_HandleClosedOnExit == pc \in {"done", "dead"} => port # "open"

DataLines(f) == SelectSeq(f.lines, LAMBDA l : l.kind = "row")
Timestamps(f) == [i \in 1..Len(DataLines(f)) |-> DataLines(f)[i].cells[1]]
NonDecreasing(q) == \A i, j \in 1..Len(q) : i < j => q[i] <= q[j]

OneHeaderThenRows(f, n) ==
    /\ f.exists
    /\ Len(f.lines) = n + 1
    /\ f.lines[1] = HeaderLine
    /\ \A i \in 2..Len(f.lines) : f.lines[i].kind = "row"

SimulatedFromNoFile == startFile = NoFile /\ mode = "SIMULATION" /\ pc = "read"

\* C6 as stated: from no log file, in simulation mode, after N completed ticks the
\* file is one header row and N data rows, their timestamps non-decreasing.
C6_HeaderAndRowsSorted ==
    SimulatedFromNoFile
        => OneHeaderThenRows(file, ticks) /\ NonDecreasing(Timestamps(file))

\* C6 as amended: from no log file, in simulation mode, after N completed ticks the
\* file is one header row and N data rows; their timestamps are non-decreasing if
\* no reading of the local wall clock was earlier than the reading before it.
C6_HeaderAndRowsSortedByClock ==
    SimulatedFromNoFile
        => /\ OneHeaderThenRows(file, ticks)
           /\ ~clockBack => NonDecreasing(Timestamps(file))

C6_Witness ==
    /\ SimulatedFromNoFile
    /\ ticks = 2
    /\ ~clockBack
    /\ Timestamps(file)[1] < Timestamps(file)[2]

\* C9: the mode is decided at startup and kept: ser is what it was when the mode
\* was printed, every tick read from the source of that mode, and the mode is
\* SIMULATION when simulation is configured, pyserial is missing or the port
\* failed to open, and SERIAL when the port was opened.
C9_ModeDecidedOnce ==
    mode # ""
        => /\ (mode = "SERIAL") = (ser = "handle")
           /\ \A i \in 1..Len(sources) :
                 sources[i] = IF mode = "SERIAL" THEN "serial" ELSE "sim"
           /\ (SIMULATION \/ ~serial \/ port = "failed") => mode = "SIMULATION"
           /\ port \in {"open", "closed"} => mode = "SERIAL"

C9_Witness ==
    /\ mode = "SERIAL"
    /\ Len(sources) = 2
    /\ pc = "sleep"
    /\ file # startFile

(***************************************************************************)
(* A run that only calls evaluate_thresholds, on measurements at and       *)
(* around every bound, nan and inf among them: claim C7, under EvalSpec.   *)
(***************************************************************************)
MainIdle ==
    /\ SIMULATION = TRUE
    /\ serial = FALSE
    /\ ser = "None"
    /\ port = "untried"
    /\ mode = ""
    /\ raw = <<>>
    /\ shown = <<>>
    /\ clock = 0
    /\ clockBack = FALSE
    /\ ticks = 0
    /\ sources = <<>>
    /\ exc = ""

EvalPM25 == {Num(249, 1), Num(25, 0), Num(251, 1), NaN}
EvalPM10 == {Num(50, 0), Num(5001, 2), Inf(1)}
EvalCO2 == {Num(1000, 0), Num(1001, 0)}
EvalTEMP == {Num(-101, 1), Num(-10, 0), Num(45, 0), Num(451, 1), NaN}
EvalHUM == {Num(199, 1), Num(20, 0), Num(70, 0), Num(701, 1), Inf(-1)}

EvalInit ==
    /\ pc = "eval_call"
    /\ \E a \in EvalPM25, b \in EvalPM10, c \in EvalCO2, d \in EvalTEMP, e \in EvalHUM :
          data = Reading(a, b, c, d, e)
    /\ row = MakeRow(0, data)
    /\ warnings = <<>>
    /\ file = NoFile
    /\ startFile = NoFile
    /\ MainIdle
    /\ Idle

EvaluateCall ==
    /\ pc = "eval_call"
    /\ warnings' = evaluate_thresholds(row)
    /\ pc' = "eval_done"
    /\ UNCHANGED <<config, harness, ser, port, mode, raw, data, row, shown, file,
                   clock, clockBack, ticks, sources, exc>>

EvalNext == EvaluateCall

EvalSpec == EvalInit /\ [][EvalNext]_vars

\* the rules of the claim, on the exact decimal the float stands for
Above(x, bound) ==
    \/ x.k = "inf" /\ x.m = 1
    \/ x.k = "num" /\ x.m - bound * Pow10(x.e) > 0
Inside(x, lo, hi) ==
    /\ x.k = "num"
    /\ ~Above(x, hi)
    /\ ~(lo * Pow10(x.e) - x.m > 0)

Violated(msg, d) ==
    CASE msg = W_PM25 -> Above(d["PM2_5"], 25)
      [] msg = W_PM10 -> Above(d["PM10"], 50)
      [] msg = W_CO2 -> Above(d["CO2"], 1000)
      [] msg = W_TEMP -> ~Inside(d["TEMP"], -10, 45)
      [] msg = W_HUM -> ~Inside(d["HUM"], 20, 70)

FixedOrder == <<W_PM25, W_PM10, W_CO2, W_TEMP, W_HUM>>

\* C7: for a complete measurement evaluate_thresholds returns one warning for each
\* violated rule and none for a satisfied one, each rule judged on its own field
\* (a value equal to a bound violates nothing), in the order PM2.5, PM10, CO2,
\* TEMP, HUM, and leaves the measurement as it was.
C7_OneWarningPerViolatedRule ==
    pc = "eval_done"
        => /\ warnings = SelectSeq(FixedOrder, LAMBDA msg : Violated(msg, row))
           /\ row = MakeRow(0, data)

C7_Witness ==
    /\ pc = "eval_done"
    /\ row["PM2_5"] = Num(25, 0)
    /\ row["TEMP"] = Num(45, 0)
    /\ warnings = <<W_PM10, W_CO2, W_HUM>>

(***************************************************************************)
(* A run that only calls parse_line: claims C8 and C10, under ParseSpec.   *)
(* The input is a well-formed line of five measurements (each key in one   *)
(* of its spellings, the segments in any order), or up to MaxSegs segments *)
(* of any kind.                                                            *)
(***************************************************************************)
RECURSIVE Join(_, _)
Join(parts, sep) ==
    IF parts = <<>> THEN <<>>
    ELSE IF Len(parts) = 1 THEN parts[1]
    ELSE parts[1] \o <<sep>> \o Join(Tail(parts), sep)

Spellings ==
    [PM2_5 |-> {<<"P", "M", "2", "5">>,
                <<"P", "M", "2", ".", "5">>,
                <<"P", "M", "2", "_", "5">>,
                <<"p", "m", "2", "5">>,
                <<"P", "m", "2", ".", "5">>},
     PM10 |-> {<<"P", "M", "1", "0">>,
               <<"p", "m", "1", "0">>},
     CO2 |-> {<<"C", "O", "2">>,
              <<"c", "o", "2">>},
     TEMP |-> {<<"T", "E", "M", "P">>,
               <<"T", "E", "M", "P", "C">>,
               <<"T">>,
               <<"t">>},
     HUM |-> {<<"H", "U", "M">>,
              <<"R", "H">>,
              <<"r", "h">>}]

\* the value texts of a line and the numbers they denote
ValueTexts ==
    {[PM2_5 |-> [text |-> <<"2", "3", ".", "4">>, val |-> Num(234, 1)],
      PM10 |-> [text |-> <<"4", "5", ".", "1">>, val |-> Num(451, 1)],
      CO2 |-> [text |-> <<"7", "8", "0">>, val |-> Num(780, 0)],
      TEMP |-> [text |-> <<"2", "1", ".", "9">>, val |-> Num(219, 1)],
      HUM |-> [text |-> <<"4", "7", ".", "3">>, val |-> Num(473, 1)]],
     [PM2_5 |-> [text |-> <<" ", "3", "0">>, val |-> Num(30, 0)],
      PM10 |-> [text |-> <<"1", "0", ".", "0">>, val |-> Num(10, 0)],
      CO2 |-> [text |-> <<"1", "2", "0", "0", " ">>, val |-> Num(1200, 0)],
      TEMP |-> [text |-> <<"-", "5", ".", "5">>, val |-> Num(-55, 1)],
      HUM |-> [text |-> <<"+", "7", "5">>, val |-> Num(75, 0)]]}

Orders == {p \in [1..5 -> 1..5] : \A i, j \in 1..5 : p[i] = p[j] => i = j}

Segment(key, text) == key \o <<":">> \o text

WellFormedLine(order, keys, values) ==
    Join([i \in 1..5 |-> Segment(keys[Fields[order[i]]], values[Fields[order[i]]].text)],
         ";")

SegmentPool ==
    {<<"P", "M", "2", "5", ":", "1", "0">>,
     <<"H", "U", "M", ":", "4", "0">>,
     <<"T", ":", " ", "2", "0", " ">>,
     <<"D", "E", "B", "U", "G", ":", "1">>,
     <<"D", "E", "B", "U", "G", ":", "o", "n">>,
     <<"b", "o", "o", "t">>,
     <<>>}

RECURSIVE SegmentLists(_)
SegmentLists(n) ==
    IF n = 0 THEN {<<>>}
    ELSE SegmentLists(n - 1)
           \cup {Append(q, g) : q \in {x \in SegmentLists(n - 1) : Len(x) = n - 1},
                                g \in SegmentPool}

ParseInit ==
    /\ pc = "parse_call"
    /\ \/ \E order \in Orders, values \in ValueTexts,
            k1 \in Spellings["PM2_5"], k2 \in Spellings["PM10"], k3 \in Spellings["CO2"],
            k4 \in Spellings["TEMP"], k5 \in Spellings["HUM"] :
             /\ line = WellFormedLine(order, Reading(k1, k2, k3, k4, k5), values)
             /\ expect = [f \in FieldSet |-> values[f].val]
       \/ \E q \in SegmentLists(MaxSegs) :
             /\ line = Join(q, ";")
             /\ expect = EmptyDict
    /\ parsed = NoOutcome
    /\ ensured = FALSE
    /\ data = EmptyDict
    /\ row = NoRow
    /\ warnings = <<>>
    /\ file = NoFile
    /\ startFile = NoFile
    /\ MainIdle

ParseCall ==
    /\ pc = "parse_call"
    /\ parsed' = parse_line(line)
    /\ pc' = "parse_done"
    /\ UNCHANGED <<config, line, expect, ensured, ser, port, mode, raw, data, row,
                   warnings, shown, file, clock, clockBack, ticks, sources, exc>>

ParseNext == ParseCall

ParseSpec == ParseInit /\ [][ParseNext]_vars

\* C8: a line of one well-formed KEY:VALUE segment per measurement parses to the
\* record of exactly the five canonical fields with the values given, whatever the
\* case of the keys, the alias used and the order of the segments.
C8_WellFormedLineParsed ==
    (pc = "parse_done" /\ Complete(expect)) => parsed = Returned(expect)

C8_Witness ==
    /\ pc = "parse_done"
    /\ Complete(expect)
    /\ SubSeq(line, 1, 3) = <<"r", "h", ":">>
    /\ Contains(line, "t")
    /\ Contains(line, "_")
    /\ Keys(parsed.data) = FieldSet

KnownKeys == {K_PM25, K_PM2d5, K_PM2_5, K_PM10, K_CO2, K_TEMP, K_TEMPC, K_T, K_HUM, K_RH}

UnknownKey(part) == Contains(part, ":") /\ Upper(Strip(KeyOf(part))) \notin KnownKeys

Without(parts, i) == SubSeq(parts, 1, i - 1) \o SubSeq(parts, i + 1, Len(parts))

\* C10: a segment whose key is no recognized key or alias has no effect on the
\* outcome of parse_line, whatever its value text: the outcome (the record, or
\* the failure) is that of the line with the segment removed.
C10_UnknownKeysIgnored ==
    pc = "parse_done"
        => \A i \in 1..Len(Split(line, ";")) :
              UnknownKey(Split(line, ";")[i])
                  => parsed = parse_line(Join(Without(Split(line, ";"), i), ";"))

(***************************************************************************)
(* A run that only calls ensure_csv_header and log_csv on one path, in any *)
(* order: claims C4 and C5, under FileSpec.                                *)
(***************************************************************************)
RowPool == {MakeRow(t, d) : t \in 0..MaxClock, d \in simulate_reading}

FileInit ==
    /\ pc = "file_api"
    /\ file \in {NoFile, EmptyFile}
    /\ startFile = file
    /\ ensured = FALSE
    /\ line = <<>>
    /\ parsed = NoOutcome
    /\ expect = EmptyDict
    /\ data = EmptyDict
    /\ row = NoRow
    /\ warnings = <<>>
    /\ MainIdle

CallEnsureCsvHeader ==
    /\ pc = "file_api"
    /\ file' = ensure_csv_header(file)
    /\ ensured' = TRUE
    /\ UNCHANGED <<pc, config, line, parsed, expect, ser, port, mode, raw, data, row,
                   warnings, shown, clock, clockBack, ticks, sources, exc>>

CallLogCsv ==
    /\ pc = "file_api"
    /\ Len(file.lines) < MaxRows
    /\ \E r \in RowPool : file' = log_csv(file, r) /\ row' = r
    /\ UNCHANGED <<pc, config, harness, ser, port, mode, raw, data, warnings, shown,
                   clock, clockBack, ticks, sources, exc>>

FileNext ==
    \/ CallEnsureCsvHeader
    \/ CallLogCsv

FileSpec == FileInit /\ [][FileNext]_vars

IsPrefix(p, q) == Len(p) <= Len(q) /\ SubSeq(q, 1, Len(p)) = p

\* C4: the log is append-only: over any sequence of ensure_csv_header and log_csv
\* calls every data row in the file stays, unchanged and in the same order.
C4_RowsNeverRemoved == [][IsPrefix(DataLines(file), DataLines(file'))]_vars

HeaderCount(f) == Cardinality({i \in 1..Len(f.lines) : f.lines[i] = HeaderLine})

\* C5: ensure_csv_header is idempotent: it changes nothing in a file whose first
\* line starts with the header token, calling it twice leaves the file that one
\* call leaves, and once it was called the file, whatever log_csv appended since,
\* holds exactly one header row, its first line.
C5_EnsureHeaderIdempotent ==
    /\ (file.exists /\ FirstLineIsHeader(file)) => ensure_csv_header(file) = file
    /\ ensure_csv_header(ensure_csv_header(file)) = ensure_csv_header(file)
    /\ ensured => /\ file.exists
                  /\ file.lines # <<>>
                  /\ file.lines[1] = HeaderLine
                  /\ HeaderCount(file) = 1

C5_Witness ==
    /\ ensured
    /\ Len(file.lines) = 3
    /\ file.lines[1] = HeaderLine
    /\ file.lines[3] = RowLine(row)

=============================================================================
